---- MODULE Spec2Model ----
(***************************************************************************)
(* Model of the VQE optimization-and-evaluation loop of                    *)
(* QML/Research/VQE.ipynb: the objective function calculate_expectation,   *)
(* the driver vqe_optimization, the module-level counter iteration_count   *)
(* and the caller's binding vqe_result, over any sequence of runs          *)
(* performed in one process.                                               *)
(*                                                                         *)
(* Python objects that are shared by reference live in two heaps: dicts    *)
(* (the callback_dict objects) and heap (the parameter arrays).  Real      *)
(* scalars (angles, energies) are abstracted to small naturals.  The       *)
(* minimizer and the estimator are external: the minimizer proposes any    *)
(* point and either hands the objective a fresh copy of it or its own      *)
(* working array; the estimator returns any energy or fails.  In the       *)
(* deterministic environment (env.det) the estimator is a fixed function   *)
(* of the parameter vector and the minimizer a fixed strategy.             *)
(***************************************************************************)
EXTENDS Integers, Sequences, FiniteSets, TLC

\* ---- bounds of the model ------------------------------------------------
\* Iteration budget handed to the minimizer.  The source sets 200
\* (options maxiter); the model scales it down.
maxiter == 2
\* Cap on the process-wide counter iteration_count (it is unbounded in the code).
MaxCount == 10

\* ---- program constants --------------------------------------------------
\* num_params = 5
ConfiguredNumParams == 5
\* iteration_count % 10 == 0
ProgressEvery == 10

\* ---- input domains ------------------------------------------------------
\* Values of num_params the module may be configured with.
NumParamsChoices == {ConfiguredNumParams, ConfiguredNumParams + 1}
\* Abstract rotation angles and abstract energies.
Angles == {0, 1}
Energies == {0, 1}
\* Parameter vectors of length n the minimizer works with.
Points(n) == {[i \in 1..n |-> a] : a \in Angles}

VARIABLES
    num_params,        \* module-level num_params
    minimizer_copies,  \* TRUE: the minimizer passes a fresh copy of x per call
    iteration_count,   \* module-level iteration_count
    heap,              \* parameter arrays, by reference
    dicts,             \* callback_dict objects, by reference
    callback_dict,     \* reference to the current run's callback_dict (0: none)
    arg,               \* reference passed as params to the pending call
    pc,                \* position of the process
    vqe_result,        \* the caller's binding of the last returned result
    invocations,       \* calculate_expectation invocations started in this run
    oracle_log,        \* estimator.run calls made in this run
    progress,          \* progress lines printed in this run
    received,          \* values the objective has returned to the minimizer
    started,           \* invocations started since the module was loaded
    env                \* the estimator and the minimizer in use

vars == <<num_params, minimizer_copies, iteration_count, heap, dicts,
          callback_dict, arg, pc, vqe_result, invocations, oracle_log, progress,
          received, started, env>>

\* ---- heaps --------------------------------------------------------------
DictIds == 1..2
BufIds == DictIds \X (0..maxiter)
NoRef == <<0, 0>>
Null == <<>>
NoResult == [x |-> Null, fun |-> 0, status |-> "none", intermediate_info |-> 0]

\* callback_dict = {'params': [], 'energy': []}
NewCallbackDict_carried ==
    IF vqe_result.status = "none" THEN [params |-> <<>>, energy |-> <<>>]
    ELSE dicts[vqe_result.intermediate_info]
NewCallbackDict == [params |-> <<>>, energy |-> <<>>]

\* The dict object a new run allocates: never the one the caller still holds.
NewDictId_shared(res) == IF res.status = "none" THEN 1 ELSE res.intermediate_info
NewDictId(res) == IF res.status = "none" THEN 1 ELSE 3 - res.intermediate_info

\* The arrays of dict d are released, every other array is kept.
ReleaseBufs(h, d) == [b \in BufIds |-> IF b[1] = d THEN Null ELSE h[b]]

\* ---- uccsd_ansatz -------------------------------------------------------
\* The indices of theta the circuit template uses.
AnsatzThetaIndices == {0, 1, 2, 3, 4}
\* circuit.num_parameters
ansatz_num_parameters == Cardinality(AnsatzThetaIndices)

\* assert ansatz_template.num_parameters == num_params
ParamCountOK_skipped(n) == TRUE
ParamCountOK(n) == ansatz_num_parameters = n

\* ---- the estimator (AerEstimator) ---------------------------------------
\* Outcome of a call that raises instead of returning a value.
OracleFails == -1
\* Any estimator: stochastic, may fail.
FreeEnv == [det |-> FALSE, oracle |-> <<>>, next |-> <<>>, stop |-> {}]
\* Deterministic estimators and minimizers over vectors of length n: the
\* estimator maps a vector to its outcome; the minimizer derives its next
\* trial angle from the last value received and stops on a value in stop.
DetEnvs(n) ==
    [det : {TRUE},
     oracle : [Points(n) -> Energies \cup {OracleFails}],
     next : [Energies -> Angles],
     stop : SUBSET Energies]
\* What job.result() can do for a batch.
OracleOutcomes(batch) ==
    IF env.det THEN {env.oracle[batch[1]]} ELSE Energies \cup {OracleFails}

\* ---- calculate_expectation ---------------------------------------------
\* iteration_count += 1
BumpCount_skipped(c) == c
BumpCount(c) == c + 1

\* parameter_values=[params]
OracleBatch(r) == <<heap[r]>>

\* job = estimator.run(...); result = job.result()
RunEstimator_retry(log, batch, ok, e) ==
    IF ok THEN Append(log, [batch |-> batch, ok |-> ok, value |-> e])
    ELSE Append(Append(log, [batch |-> batch, ok |-> ok, value |-> e]),
                [batch |-> batch, ok |-> ok, value |-> e])
RunEstimator_cached(log, batch, ok, e) ==
    IF \E i \in 1..Len(log) : log[i].batch = batch THEN log
    ELSE Append(log, [batch |-> batch, ok |-> ok, value |-> e])
RunEstimator(log, batch, ok, e) ==
    Append(log, [batch |-> batch, ok |-> ok, value |-> e])

\* callback_dict['params'].append(params); callback_dict['energy'].append(...)
AppendRecord_accepted(cd, r, e) ==
    IF cd.energy # <<>> /\ e >= cd.energy[Len(cd.energy)] THEN cd
    ELSE [params |-> Append(cd.params, r), energy |-> Append(cd.energy, e)]
AppendRecord_dropped(cd, r, e) == cd
AppendRecord_energy_only(cd, r, e) ==
    [params |-> cd.params, energy |-> Append(cd.energy, e)]
AppendRecord_latest(cd, r, e) == [params |-> <<r>>, energy |-> <<e>>]
AppendRecord(cd, r, e) ==
    [params |-> Append(cd.params, r), energy |-> Append(cd.energy, e)]

\* if iteration_count % 10 == 0: print(...)
ShouldReport(c) == c % ProgressEvery = 0

\* return expectation_value
ReturnValue_truncated(e) == 0
ReturnValue(e) == e

\* ---- the minimizer (scipy.optimize.minimize, COBYLA) --------------------
\* options={'maxiter': 200}: the minimizer may evaluate again after n calls.
WithinBudget(n) == n < maxiter

\* The array handed to the objective for the k-th call of the run on dict d.
CallBuf(d, k) == IF minimizer_copies THEN <<d, k>> ELSE <<d, 0>>

\* The last value the objective returned to the minimizer.
LastReceived == received[Len(received)]
\* The deterministic minimizer has met its convergence criterion.
MustStop == env.det /\ LastReceived \in env.stop
\* The trial points the minimizer may propose next.
Proposals ==
    IF env.det THEN {[i \in 1..num_params |-> env.next[LastReceived]]}
    ELSE Points(num_params)
\* What the minimizer knows of its evaluations: points and values received.
MinimizerView ==
    [i \in 1..Len(received) |->
        [batch |-> oracle_log[i].batch, ok |-> TRUE, value |-> received[i]]]
\* The evaluations the minimizer may report as its result.
ReportIndices == IF env.det THEN {Len(received)} ELSE 1..Len(received)

\* The OptimizeResult of minimize, reporting the i-th point it evaluated and
\* the value it received there, with result.intermediate_info attached.
MakeResult_stale(log, i, reason, d) ==
    [x |-> log[i].batch[1],
     fun |-> log[i].value,
     status |-> reason,
     intermediate_info |-> 3 - d]
MakeResult(log, i, reason, d) ==
    [x |-> log[i].batch[1],
     fun |-> log[i].value,
     status |-> reason,
     intermediate_info |-> d]

\* ---- initial state ------------------------------------------------------
Init ==
    /\ num_params \in NumParamsChoices
    /\ minimizer_copies \in BOOLEAN
    /\ iteration_count = 0
    /\ vqe_result = NoResult
    /\ heap = [b \in BufIds |-> Null]
    /\ dicts = [d \in DictIds |-> NewCallbackDict]
    /\ callback_dict = 0
    /\ arg = NoRef
    /\ pc = "idle"
    /\ invocations = 0
    /\ oracle_log = <<>>
    /\ progress = <<>>
    /\ received = <<>>
    /\ started = 0
    /\ env = FreeEnv

BetweenRuns == pc \in {"idle", "returned", "aborted", "assert_failed"}

\* ---- vqe_optimization up to the first objective call --------------------
\* The assert fails: AssertionError before callback_dict exists.
VqeAssertFails ==
    /\ BetweenRuns
    /\ iteration_count < MaxCount
    /\ ~ParamCountOK(num_params)
    /\ pc' = "assert_failed"
    /\ callback_dict' = 0
    /\ arg' = NoRef
    /\ invocations' = 0
    /\ oracle_log' = <<>>
    /\ progress' = <<>>
    /\ received' = <<>>
    /\ UNCHANGED <<num_params, minimizer_copies, iteration_count, heap, dicts,
                   vqe_result, started, env>>

\* initial_params is drawn, the assert passes, callback_dict is created and
\* minimize is entered: it sets up the first call, at x0 = initial_params.
VqeStart ==
    /\ BetweenRuns
    /\ iteration_count < MaxCount
    /\ ParamCountOK(num_params)
    /\ \E initial_params \in Points(num_params) :
         LET d == NewDictId(vqe_result)
             b == CallBuf(d, 1)
         IN /\ dicts' = [dicts EXCEPT ![d] = NewCallbackDict]
            /\ heap' = [ReleaseBufs(heap, d) EXCEPT ![b] = initial_params]
            /\ callback_dict' = d
            /\ arg' = b
    /\ pc' = "call"
    /\ invocations' = 0
    /\ oracle_log' = <<>>
    /\ progress' = <<>>
    /\ received' = <<>>
    /\ UNCHANGED <<num_params, minimizer_copies, iteration_count, vqe_result,
                   started, env>>

\* ---- the minimizer proposes the next trial point ------------------------
MinimizerPropose ==
    /\ pc = "minimize"
    /\ WithinBudget(invocations)
    /\ ~MustStop
    /\ iteration_count < MaxCount
    /\ \E p \in Proposals :
         LET b == CallBuf(callback_dict, invocations + 1)
         IN /\ heap' = [heap EXCEPT ![b] = p]
            /\ arg' = b
    /\ pc' = "call"
    /\ UNCHANGED <<num_params, minimizer_copies, iteration_count, dicts,
                   callback_dict, vqe_result, invocations, oracle_log, progress,
                   received, started, env>>

\* ---- calculate_expectation, the oracle returns an energy ---------------
CalculateExpectationReturns ==
    /\ pc = "call"
    /\ \E expectation_value \in OracleOutcomes(OracleBatch(arg)) \ {OracleFails} :
         LET c == BumpCount(iteration_count)
         IN /\ iteration_count' = c
            /\ oracle_log' = RunEstimator(oracle_log, OracleBatch(arg), TRUE,
                                          expectation_value)
            /\ dicts' = [dicts EXCEPT ![callback_dict] =
                            AppendRecord(@, arg, expectation_value)]
            /\ progress' = IF ShouldReport(c)
                           THEN Append(progress,
                                       [k |-> invocations + 1, iteration |-> c])
                           ELSE progress
            /\ received' = Append(received, ReturnValue(expectation_value))
    /\ invocations' = invocations + 1
    /\ started' = started + 1
    /\ pc' = "minimize"
    /\ arg' = NoRef
    /\ UNCHANGED <<num_params, minimizer_copies, heap, callback_dict, vqe_result,
                   env>>

\* ---- calculate_expectation, the oracle fails ---------------------------
\* job.result() raises; nothing catches it in calculate_expectation, in
\* minimize or in vqe_optimization, so the run ends with the exception.
CalculateExpectationRaises ==
    /\ pc = "call"
    /\ OracleFails \in OracleOutcomes(OracleBatch(arg))
    /\ iteration_count' = BumpCount(iteration_count)
    /\ oracle_log' = RunEstimator(oracle_log, OracleBatch(arg), FALSE, 0)
    /\ invocations' = invocations + 1
    /\ started' = started + 1
    /\ pc' = "aborted"
    /\ arg' = NoRef
    /\ UNCHANGED <<num_params, minimizer_copies, heap, dicts, callback_dict,
                   vqe_result, progress, received, env>>

\* ---- minimize returns; vqe_optimization packages and returns ------------
VqeReturn(reason) ==
    /\ \E i \in ReportIndices :
         vqe_result' = MakeResult(MinimizerView, i, reason, callback_dict)
    /\ dicts' = [d \in DictIds |->
                    IF d = callback_dict THEN dicts[d] ELSE NewCallbackDict]
    /\ heap' = [b \in BufIds |-> IF b[1] = callback_dict THEN heap[b] ELSE Null]
    /\ pc' = "returned"
    /\ callback_dict' = 0
    /\ UNCHANGED <<num_params, minimizer_copies, iteration_count, arg,
                   invocations, oracle_log, progress, received, started, env>>

\* The minimizer meets its convergence criterion.
MinimizerConverges ==
    /\ pc = "minimize"
    /\ invocations >= 1
    /\ (env.det => MustStop)
    /\ VqeReturn("converged")

\* The minimizer has used up its budget without converging.
MinimizerExhausts ==
    /\ pc = "minimize"
    /\ ~WithinBudget(invocations)
    /\ ~MustStop
    /\ VqeReturn("maxiter")

Next ==
    \/ VqeAssertFails
    \/ VqeStart
    \/ MinimizerPropose
    \/ CalculateExpectationReturns
    \/ CalculateExpectationRaises
    \/ MinimizerConverges
    \/ MinimizerExhausts

Spec == Init /\ [][Next]_vars

\* A step of the run in progress.  The process is sequential and keeps
\* executing: inside a run, some step of it is eventually taken.  Nothing
\* forces the caller to start another run.
RunStep ==
    \/ MinimizerPropose
    \/ CalculateExpectationReturns
    \/ CalculateExpectationRaises
    \/ MinimizerConverges
    \/ MinimizerExhausts

FairSpec == Spec /\ WF_vars(RunStep)

\* The process with a deterministic estimator and a deterministic minimizer.
DetInit ==
    /\ num_params \in NumParamsChoices
    /\ minimizer_copies \in BOOLEAN
    /\ iteration_count = 0
    /\ vqe_result = NoResult
    /\ heap = [b \in BufIds |-> Null]
    /\ dicts = [d \in DictIds |-> NewCallbackDict]
    /\ callback_dict = 0
    /\ arg = NoRef
    /\ pc = "idle"
    /\ invocations = 0
    /\ oracle_log = <<>>
    /\ progress = <<>>
    /\ received = <<>>
    /\ started = 0
    /\ env \in DetEnvs(num_params)

DetSpec == DetInit /\ [][Next]_vars

\* ---- helpers of the properties -----------------------------------------
IsPrefix(s, t) == Len(s) <= Len(t) /\ \A i \in 1..Len(s) : s[i] = t[i]
\* The parameter values the records of dict d show when read now.
Deref(d) == [i \in 1..Len(dicts[d].params) |-> heap[dicts[d].params[i]]]

\* C1: the history handed back by a completed run holds exactly one record
\* per objective invocation of that run, in invocation order: record i
\* holds the array passed to and the energy obtained by invocation i.
C1_OneRecordPerInvocation ==
    pc = "returned" =>
        LET d == vqe_result.intermediate_info
            h == dicts[d]
        IN /\ Len(h.params) = invocations
           /\ Len(h.energy) = invocations
           /\ \A i \in 1..invocations :
                /\ h.params[i] = CallBuf(d, i)
                /\ h.energy[i] = oracle_log[i].value

C1_Witness ==
    /\ pc = "returned"
    /\ invocations = 2
    /\ oracle_log[1].value < oracle_log[2].value

\* C2: in every run a progress line is printed at the run's k-th evaluation
\* if and only if k is a positive multiple of 10.
C2_ProgressAtMultiplesOfTenOfRun ==
    \A k \in 1..Len(dicts[IF callback_dict = 0 THEN 1 ELSE callback_dict].energy) :
        callback_dict # 0 =>
            ((\E i \in 1..Len(progress) : progress[i].k = k)
                <=> k % ProgressEvery = 0)

\* C3: at the start of every run the counter is 0 and the first evaluation
\* of every run is numbered 1.
C3_CounterZeroAtRunStart ==
    /\ (pc = "call" /\ invocations = 0) => iteration_count = 0
    /\ (pc \in {"minimize", "aborted"} /\ invocations = 1) => iteration_count = 1

\* C4: when the ansatz template's parameter count differs from num_params,
\* a run fails before any objective evaluation: no oracle call has been
\* made, no history exists and no result has been returned.
C4_MismatchFailsBeforeEvaluation ==
    ansatz_num_parameters # num_params =>
        /\ pc \in {"idle", "assert_failed"}
        /\ oracle_log = <<>>
        /\ invocations = 0
        /\ iteration_count = 0
        /\ callback_dict = 0
        /\ \A d \in DictIds : dicts[d] = NewCallbackDict
        /\ vqe_result = NoResult

C4_Witness == pc = "assert_failed" /\ ansatz_num_parameters # num_params

\* C5: an oracle failure ends the run: the failed call is the last oracle
\* call of the run, no record is appended for it, and the run returns no
\* result.
C5_OracleFailureAborts ==
    /\ \A i \in 1..Len(oracle_log) :
         ~oracle_log[i].ok => (i = Len(oracle_log) /\ pc = "aborted")
    /\ pc = "aborted" =>
         /\ oracle_log # <<>>
         /\ ~oracle_log[Len(oracle_log)].ok
         /\ Len(dicts[callback_dict].params) = invocations - 1
         /\ Len(dicts[callback_dict].energy) = invocations - 1
         /\ vqe_result.intermediate_info # callback_dict

C5_Witness ==
    /\ pc = "aborted"
    /\ invocations = 2
    /\ Len(dicts[callback_dict].energy) = 1

\* C6: every record of the current history shows the parameter values its
\* evaluation was made with, whatever the minimizer has since done with the
\* array it passed.
C6_ParamsSnapshottedByValue ==
    callback_dict # 0 =>
        \A i \in 1..Len(dicts[callback_dict].params) :
            Deref(callback_dict)[i] = oracle_log[i].batch[1]

\* C7: a run starts with an empty history object of its own, distinct from
\* the one the earlier result holds, and no step of the later run changes
\* the history of the result the caller still holds.
C7_HistoriesNotReused ==
    [][ /\ (vqe_result.status # "none" /\ vqe_result' = vqe_result) =>
             LET d == vqe_result.intermediate_info
             IN /\ dicts'[d] = dicts[d]
                /\ Deref(d)' = Deref(d)
        /\ (BetweenRuns /\ pc' = "call") =>
             /\ dicts'[callback_dict'] = NewCallbackDict
             /\ callback_dict' # vqe_result'.intermediate_info
      ]_vars

C7_Witness ==
    /\ vqe_result.status # "none"
    /\ callback_dict # 0
    /\ pc = "minimize"
    /\ Len(dicts[callback_dict].energy) = 2
    /\ Len(dicts[vqe_result.intermediate_info].energy) = 2

\* C8: an objective evaluation leaves every array unchanged and only appends
\* at the end of the current history: the history before it is a prefix of
\* the history after it, which is one record longer when the call returns.
C8_AppendOnly ==
    [][ pc = "call" =>
          /\ heap' = heap
          /\ \A d \in DictIds :
               /\ IsPrefix(dicts[d].params, dicts'[d].params)
               /\ IsPrefix(dicts[d].energy, dicts'[d].energy)
               /\ d # callback_dict => dicts'[d] = dicts[d]
          /\ pc' = "minimize" =>
               /\ Len(dicts'[callback_dict].params)
                    = Len(dicts[callback_dict].params) + 1
               /\ Len(dicts'[callback_dict].energy)
                    = Len(dicts[callback_dict].energy) + 1
      ]_vars

C8_Witness ==
    /\ pc = "minimize"
    /\ Len(dicts[callback_dict].params) = 2

\* C9: every objective invocation makes exactly one oracle call, with a
\* batch of exactly one parameter vector, also for a vector evaluated before.
C9_OneOracleCallPerInvocation ==
    /\ Len(oracle_log) = invocations
    /\ \A i \in 1..Len(oracle_log) : Len(oracle_log[i].batch) = 1

C9_Witness ==
    /\ invocations = 2
    /\ Len(oracle_log) = 2
    /\ oracle_log[1].batch = oracle_log[2].batch
    /\ oracle_log[1].value # oracle_log[2].value

\* C10: once the minimizer has used up its iteration budget, the run's next
\* step returns a result: a point the minimizer evaluated with the energy
\* obtained there, a termination reason, and the run's full history.
C10_BudgetExhaustionReturns ==
    [][ (pc = "minimize" /\ invocations = maxiter) =>
          /\ pc' = "returned"
          /\ vqe_result'.status \in {"maxiter", "converged"}
          /\ vqe_result'.intermediate_info = callback_dict
          /\ dicts'[callback_dict] = dicts[callback_dict]
          /\ Len(dicts'[callback_dict].energy) = maxiter
          /\ \E i \in 1..maxiter :
               /\ vqe_result'.x = oracle_log[i].batch[1]
               /\ vqe_result'.fun = dicts[callback_dict].energy[i]
      ]_vars

C10_Witness ==
    /\ pc = "returned"
    /\ vqe_result.status = "maxiter"
    /\ Len(dicts[vqe_result.intermediate_info].energy) = maxiter

\* C11: a run that has started ends, returned or aborted by an oracle
\* failure, and a returned run hands back a non-empty history of at most
\* maxiter records (COBYLA counts objective calls: one call per iteration).
C11_RunTerminatesWithBoundedHistory ==
    /\ [](pc = "returned" =>
            LET h == dicts[vqe_result.intermediate_info]
            IN /\ Len(h.energy) >= 1
               /\ Len(h.energy) <= maxiter
               /\ Len(h.params) >= 1
               /\ Len(h.params) <= maxiter)
    /\ ((pc = "call" /\ invocations = 0) ~> (pc \in {"returned", "aborted"}))

C11_Witness ==
    /\ pc = "returned"
    /\ vqe_result.status = "converged"
    /\ iteration_count > maxiter
    /\ Len(dicts[vqe_result.intermediate_info].energy) = maxiter

\* The records a run from x with n calls left produces in the deterministic
\* environment: a function of x and env alone.
RECURSIVE Trajectory(_, _)
Trajectory(x, n) ==
    IF n = 0 \/ env.oracle[x] = OracleFails THEN <<>>
    ELSE LET e == env.oracle[x]
         IN IF e \in env.stop THEN <<[params |-> x, energy |-> e]>>
            ELSE <<[params |-> x, energy |-> e]>>
                 \o Trajectory([i \in 1..num_params |-> env.next[e]], n - 1)

\* C12: with a deterministic estimator and minimizer, the records and the
\* final energy of every completed run are determined by its initial
\* parameter vector alone, whatever runs came before: two runs from the
\* same initial vector produce the same trajectory.
C12_TrajectoryDeterminedByInitialPoint ==
    (env.det /\ pc = "returned") =>
        LET d == vqe_result.intermediate_info
            h == dicts[d]
            T == Trajectory(oracle_log[1].batch[1], maxiter)
        IN /\ Len(h.energy) = Len(T)
           /\ Len(h.params) = Len(T)
           /\ \A i \in 1..Len(T) :
                /\ h.energy[i] = T[i].energy
                /\ Deref(d)[i] = IF minimizer_copies THEN T[i].params
                                 ELSE T[Len(T)].params
           /\ vqe_result.fun = T[Len(T)].energy
           /\ vqe_result.x = T[Len(T)].params

C12_Witness ==
    /\ env.det
    /\ pc = "returned"
    /\ iteration_count > invocations
    /\ invocations = 2
    /\ oracle_log[1].batch # oracle_log[2].batch
    /\ oracle_log[1].value # oracle_log[2].value

\* C14: the counter equals the number of invocations started since the
\* module was loaded and never decreases: every invocation, failing or not,
\* adds exactly 1 and no other step changes it; a returning invocation
\* appends one record and a failing one none, so each failure puts the
\* counter one further ahead of the records appended.
C14_CounterCountsEveryInvocation ==
    /\ [](iteration_count = started)
    /\ [][ /\ iteration_count' >= iteration_count
           /\ pc = "call" => iteration_count' = iteration_count + 1
           /\ pc # "call" =>
                /\ iteration_count' = iteration_count
                /\ \A d \in DictIds :
                     Len(dicts'[d].energy) <= Len(dicts[d].energy)
           /\ (pc = "call" /\ pc' = "minimize") =>
                Len(dicts'[callback_dict].energy)
                    = Len(dicts[callback_dict].energy) + 1
           /\ (pc = "call" /\ pc' = "aborted") =>
                Len(dicts'[callback_dict].energy)
                    = Len(dicts[callback_dict].energy)
         ]_vars

C14_Witness ==
    /\ pc = "aborted"
    /\ vqe_result.status = "none"
    /\ iteration_count = 2
    /\ started = 2
    /\ Len(dicts[callback_dict].energy) = 1

\* C15: the value every returning invocation hands to the minimizer is the
\* value the oracle returned for that call and the energy of the record
\* that call appended.
C15_ReturnedEnergyIsOracleValue ==
    LET d == IF callback_dict # 0 THEN callback_dict
             ELSE vqe_result.intermediate_info
    IN \A i \in 1..Len(received) :
         /\ oracle_log[i].ok
         /\ received[i] = oracle_log[i].value
         /\ d # 0
         /\ received[i] = dicts[d].energy[i]

C15_Witness ==
    /\ Len(received) = 2
    /\ received[1] = 1
    /\ received[2] = 0

\* C16: the parameter list and the energy list of every history have the
\* same length, entry i of both coming from the i-th invocation of the run,
\* and a failing invocation changes neither list.
C16_ListsAligned ==
    /\ [](/\ \A d \in DictIds : Len(dicts[d].params) = Len(dicts[d].energy)
          /\ callback_dict # 0 =>
               \A i \in 1..Len(dicts[callback_dict].params) :
                   /\ dicts[callback_dict].params[i] = CallBuf(callback_dict, i)
                   /\ dicts[callback_dict].energy[i] = oracle_log[i].value)
    /\ [][ (pc = "call" /\ pc' = "aborted") =>
              /\ dicts'[callback_dict].params = dicts[callback_dict].params
              /\ dicts'[callback_dict].energy = dicts[callback_dict].energy
         ]_vars

C16_Witness ==
    /\ pc = "aborted"
    /\ invocations = 2
    /\ Len(dicts[callback_dict].params) = 1
    /\ dicts[callback_dict].energy = <<1>>

====
